---------------------------- MODULE Spec2Model ----------------------------
(* A model of starlette-msgspec: the MsgspecRouter route decorator and the  *)
(* endpoint it builds (starlette_msgspec/router.py), and OpenAPIMiddleware  *)
(* with its lazy introspection and OpenAPI document assembly                *)
(* (starlette_msgspec/middleware.py).                                       *)
(*                                                                          *)
(* JSON values, Python runtime values and schema fragments are tagged       *)
(* records: [t |-> "dict", d |-> function from keys to values],             *)
(* [t |-> "list", l |-> sequence], [t |-> "str", s |-> string], ...         *)
EXTENDS Naturals, Sequences, FiniteSets, TLC

VARIABLES
    route_info,         \* MsgspecRouter.route_info
    routes,             \* MsgspecRouter.routes (starlette Route objects)
    registered_models,  \* MsgspecRouter.registered_models
    app_routes,         \* the Starlette application's routes
    registry,           \* TRUE when id(app) is a key of _route_registry
    routes_info,        \* OpenAPIMiddleware.routes_info
    models,             \* OpenAPIMiddleware.models
    introspected,       \* OpenAPIMiddleware._introspected
    linked,             \* routes_info/models are the registry's objects
    wrap,               \* how the middleware wraps the application
    prefix,             \* MsgspecRouter.prefix
    out,                \* outcome of the most recent operation
    reqs,               \* documentation requests in flight, step by step
    forwarded,          \* what the last __call__ handed to the wrapped app
    shared              \* components_schemas while fragments are merged

vars == <<route_info, routes, registered_models, app_routes, registry,
          routes_info, models, introspected, linked, wrap, prefix, out,
          reqs, forwarded, shared>>

-----------------------------------------------------------------------------
(* Bounds *)

MaxRoutes == 2

\* The documentation requests that may be in flight together
Requests == {"r1", "r2"}

-----------------------------------------------------------------------------
(* Tagged values *)

JStr(str)  == [t |-> "str",  s |-> str]
JNum(num)  == [t |-> "num",  n |-> num]
JBool(bool) == [t |-> "bool", b |-> bool]
JList(seq) == [t |-> "list", l |-> seq]
JDict(fn) == [t |-> "dict", d |-> fn]
JNull    == [t |-> "null"]
Malformed == [t |-> "malformed"]   \* bytes that are not JSON
Struct(cls, fields) == [t |-> "struct", cls |-> cls, f |-> fields]
EmptyFn == [x \in {} |-> x]
EmptyDict == JDict(EmptyFn)

\* F applied to the value of e, with e evaluated once
Bind(e, F(_)) == CHOOSE r \in {F(x) : x \in {e}} : TRUE

Keys(dict) == DOMAIN dict.d
Has(dict, k) == dict.t = "dict" /\ k \in DOMAIN dict.d
Put(dict, k, x) == JDict((k :> x) @@ dict.d)
Del(dict, k) == JDict([x \in (DOMAIN dict.d) \ {k} |-> dict.d[x]])

-----------------------------------------------------------------------------
(* Declared types.  A type expression is a sequence of tokens:              *)
(* <<"Item">>, <<"List", "Item">> for List[Item], <<"Dict", "Order">> for   *)
(* Dict[str, Order]; <<>> stands for "no annotation".                       *)

NoType == <<>>
StructNames == {"Item", "User", "Order"}

Field(n, ty, req, dflt) == [name |-> n, type |-> ty, required |-> req, default |-> dflt]

StructFields(name) ==
    CASE name = "Item"  -> << Field("name", <<"str">>, TRUE, JNull),
                              Field("price", <<"float">>, TRUE, JNull),
                              Field("description", <<"str">>, FALSE, JStr("")) >>
      [] name = "User"  -> << Field("id", <<"int">>, TRUE, JNull),
                              Field("name", <<"str">>, TRUE, JNull) >>
      [] name = "Order" -> << Field("id", <<"int">>, TRUE, JNull),
                              Field("item", <<"Item">>, TRUE, JNull) >>

FieldNames(name) == {StructFields(name)[i].name : i \in DOMAIN StructFields(name)}
FieldOf(name, fn) ==
    LET fs == StructFields(name)
    IN fs[CHOOSE i \in DOMAIN fs : fs[i].name = fn]

IsStruct(ty) == Len(ty) = 1 /\ ty[1] \in StructNames

\* typing.get_origin / get_args / hasattr(x, '__annotations__')
get_origin(ty) == Len(ty) > 1
get_args(ty) ==
    CASE Len(ty) > 1 /\ ty[1] = "Dict" -> << <<"str">>, Tail(ty) >>
      [] Len(ty) > 1                   -> << Tail(ty) >>
      [] OTHER                         -> << >>
has_annotations(ty) == IsStruct(ty)

-----------------------------------------------------------------------------
(* msgspec's codec: json.decode(raw, type=T) and to_builtins(value)         *)

RECURSIVE Valid(_, _)
Valid(j, ty) ==
    CASE ty = <<"str">>   -> j.t = "str"
      [] ty = <<"int">>   -> j.t = "num"
      [] ty = <<"float">> -> j.t = "num"
      [] IsStruct(ty) ->
            /\ j.t = "dict"
            /\ \A fn \in FieldNames(ty[1]) :
                  IF fn \in DOMAIN j.d
                  THEN Valid(j.d[fn], FieldOf(ty[1], fn).type)
                  ELSE ~FieldOf(ty[1], fn).required
      [] Len(ty) > 1 /\ ty[1] = "List" ->
            j.t = "list" /\ \A i \in DOMAIN j.l : Valid(j.l[i], Tail(ty))
      [] Len(ty) > 1 /\ ty[1] = "Dict" ->
            j.t = "dict" /\ \A k \in DOMAIN j.d : Valid(j.d[k], Tail(ty))
      [] OTHER -> FALSE

\* The Python object a valid JSON value decodes to: a Struct instance holds
\* every declared field (defaults filled in) and no undeclared one.
RECURSIVE Convert(_, _)
Convert(j, ty) ==
    CASE IsStruct(ty) ->
            Struct(ty[1], [fn \in FieldNames(ty[1]) |->
                             IF fn \in DOMAIN j.d
                             THEN Convert(j.d[fn], FieldOf(ty[1], fn).type)
                             ELSE FieldOf(ty[1], fn).default])
      [] Len(ty) > 1 /\ ty[1] = "List" ->
            JList([i \in DOMAIN j.l |-> Convert(j.l[i], Tail(ty))])
      [] Len(ty) > 1 /\ ty[1] = "Dict" ->
            JDict([k \in DOMAIN j.d |-> Convert(j.d[k], Tail(ty))])
      [] OTHER -> j

\* msgspec.json.decode: DecodeError for bytes that are not JSON, its subclass
\* ValidationError for JSON that does not match the type.
msgspec_json_decode(raw, ty) ==
    IF raw.t = "malformed" THEN [exc |-> "DecodeError", value |-> JNull]
    ELSE IF ~Valid(raw, ty) THEN [exc |-> "ValidationError", value |-> JNull]
    ELSE [exc |-> "", value |-> Convert(raw, ty)]

RECURSIVE to_builtins(_)
to_builtins(x) ==
    CASE x.t = "struct" -> JDict([fn \in DOMAIN x.f |-> to_builtins(x.f[fn])])
      [] x.t = "list"   -> JList([i \in DOMAIN x.l |-> to_builtins(x.l[i])])
      [] x.t = "dict"   -> JDict([k \in DOMAIN x.d |-> to_builtins(x.d[k])])
      [] OTHER          -> x

-----------------------------------------------------------------------------
(* msgspec's schema generator: json.schema_components(types, ref_template)  *)
(* and json.schema(type), which uses the "#/$defs/{name}" template and puts *)
(* the components under "$defs" at the top of the fragment.                 *)

DefsPrefix == "#/$defs/"
ComponentsPrefix == "#/components/schemas/"

RECURSIVE SchemaNode(_, _)
SchemaNode(ty, tmpl) ==
    CASE ty = <<"str">>   -> JDict("type" :> JStr("string"))
      [] ty = <<"int">>   -> JDict("type" :> JStr("integer"))
      [] ty = <<"float">> -> JDict("type" :> JStr("number"))
      [] IsStruct(ty)     -> JDict("$ref" :> JStr(tmpl \o ty[1]))
      [] Len(ty) > 1 /\ ty[1] = "List" ->
            JDict(("type" :> JStr("array")) @@ ("items" :> SchemaNode(Tail(ty), tmpl)))
      [] Len(ty) > 1 /\ ty[1] = "Dict" ->
            JDict(("type" :> JStr("object"))
                  @@ ("additionalProperties" :> SchemaNode(Tail(ty), tmpl)))
      [] OTHER -> EmptyDict

StructSchema(name, tmpl) ==
    LET fs == StructFields(name)
        prop(f) == IF f.required THEN SchemaNode(f.type, tmpl)
                   ELSE Put(SchemaNode(f.type, tmpl), "default", f.default)
        req == SelectSeq(fs, LAMBDA f : f.required)
    IN JDict(("title" :> JStr(name))
             @@ ("type" :> JStr("object"))
             @@ ("properties" :> JDict([fn \in FieldNames(name) |-> prop(FieldOf(name, fn))]))
             @@ ("required" :> JList([i \in DOMAIN req |-> JStr(req[i].name)])))

\* The struct types a type expression mentions, directly or through fields.
RECURSIVE Reach(_)
Reach(ty) ==
    IF ty = <<>> THEN {}
    ELSE IF IsStruct(ty)
    THEN {ty[1]} \cup UNION {Reach(FieldOf(ty[1], fn).type) : fn \in FieldNames(ty[1])}
    ELSE Reach(Tail(ty))

schema_components(types, tmpl) ==
    LET names == UNION {Reach(ty) : ty \in types}
    IN JDict([n \in names |-> StructSchema(n, tmpl)])

msgspec_json_schema(ty) ==
    LET comps == schema_components({ty}, DefsPrefix)
        node == SchemaNode(ty, DefsPrefix)
    IN IF Keys(comps) = {} THEN node ELSE Put(node, "$defs", comps)

-----------------------------------------------------------------------------
(* Handlers: the functions an application passes to the route decorator.    *)
(* A parameter is annotated Body[T] ("Body"), with another type ("plain")   *)
(* or not at all ("none").  resolvable = FALSE is a handler with an         *)
(* annotation that names nothing (get_type_hints raises NameError).         *)

Param(n, k, ty) == [name |-> n, kind |-> k, type |-> ty]

ItemValue == Struct("Item", [name |-> JStr("Test Item"), price |-> JNum(10),
                             description |-> JStr("")])
OrderValue == Struct("Order", [id |-> JNum(1), item |-> ItemValue])

Handler(name) ==
    CASE name = "get_items" ->
            [name |-> name, doc |-> "List the items.", params |-> << >>,
             ret |-> <<"List", "Item">>, resolvable |-> TRUE,
             echo |-> FALSE, result |-> JList(<<ItemValue>>)]
      [] name = "create_item" ->
            [name |-> name, doc |-> "", params |-> << Param("body", "Body", <<"Item">>) >>,
             ret |-> <<"Item">>, resolvable |-> TRUE, echo |-> TRUE, result |-> JNull]
      [] name = "head_items" ->
            [name |-> name, doc |-> "", params |-> << >>,
             ret |-> NoType, resolvable |-> TRUE, echo |-> FALSE, result |-> JNull]
      [] name = "create_order" ->
            [name |-> name, doc |-> "", params |-> << Param("body", "Body", <<"Order">>) >>,
             ret |-> <<"Order">>, resolvable |-> TRUE, echo |-> TRUE, result |-> JNull]
      [] name = "order_index" ->
            [name |-> name, doc |-> "", params |-> << >>,
             ret |-> <<"Dict", "Order">>, resolvable |-> TRUE,
             echo |-> FALSE, result |-> JDict("a" :> OrderValue)]
      [] name = "broken" ->
            [name |-> name, doc |-> "", params |-> << Param("body", "Body", <<"Missing">>) >>,
             ret |-> NoType, resolvable |-> FALSE, echo |-> TRUE, result |-> JNull]
      [] name = "pair" ->
            [name |-> name, doc |-> "",
             params |-> << Param("a", "Body", <<"Item">>), Param("b", "Body", <<"User">>) >>,
             ret |-> <<"User">>, resolvable |-> TRUE, echo |-> TRUE, result |-> JNull]
      [] name = "legacy" ->
            [name |-> name, doc |-> "", params |-> << Param("request", "plain", <<"Missing">>) >>,
             ret |-> NoType, resolvable |-> FALSE, echo |-> FALSE, result |-> JNull]

\* The decorated declarations an application may make:
\* @router.route(path, method, tags, summary, description) over func.
\* None and the empty value are both falsy: "" and << >> stand for None.
Decl(p, m, tg, s, d, f) ==
    [path |-> p, method |-> m, tags |-> tg, summary |-> s, description |-> d, func |-> f]

Decls ==
    { Decl("/items/", "GET", <<"items">>, "", "", "get_items"),
      Decl("/items/", "POST", <<"items">>, "Create", "Create an item", "create_item"),
      Decl("/items/", "HEAD", << >>, "", "", "head_items"),
      Decl("/orders/", "POST", << >>, "", "", "create_order"),
      Decl("/orders/", "GET", << >>, "", "Orders by key", "order_index"),
      Decl("/broken/", "POST", << >>, "", "", "broken"),
      Decl("/pair/", "POST", << >>, "", "", "pair") }

NoDecl == Decl("", "", << >>, "", "", "")

\* Functions added to the application directly, with app.add_route
PlainHandlers == {"legacy"}
PlainPath(f) == "/" \o f

\* str.lower() / str.upper() on the method names in use
lower(m) ==
    CASE m \in {"GET", "get"} -> "get"
      [] m \in {"POST", "post"} -> "post"
      [] m \in {"HEAD", "head"} -> "head"
      [] OTHER -> m
upper(m) ==
    CASE m \in {"GET", "get"} -> "GET"
      [] m \in {"POST", "post"} -> "POST"
      [] m \in {"HEAD", "head"} -> "HEAD"
      [] OTHER -> m

-----------------------------------------------------------------------------
(* Outcome of an operation: the exception it raised ("" for none), and for  *)
(* a request the response's status and JSON body and how many times the     *)
(* handler was entered.  arg records the operation's input.                 *)

Arg(d, f, raw) == [decl |-> d, func |-> f, payload |-> raw]
NoArg == Arg(NoDecl, "", JNull)

Outcome(op, arg, exc, status, body, calls) ==
    [op |-> op, arg |-> arg, exc |-> exc, status |-> status, body |-> body, calls |-> calls]
Returned(op, arg) == Outcome(op, arg, "", 0, JNull, 0)
Raised(op, arg, exc) == Outcome(op, arg, exc, 0, JNull, 0)

-----------------------------------------------------------------------------
(* starlette_msgspec/router.py                                              *)

\* Routes are declared and the application is put together before it serves
\* its first request.
Startup ==
    /\ out.op \notin {"openapi", "endpoint", "call"}
    /\ \A r \in Requests : reqs[r].pc = "idle"

BodyParam(n, ty) == [name |-> n, type |-> ty]
NoBody == BodyParam("", NoType)

\* The Body[...] parameters of a handler, in signature order.
BodyParams(h) == SelectSeq(h.params, LAMBDA p : p.kind = "Body")

\* body_param after the loop over the signature: the last Body[...] parameter.
body_param_of(h) ==
    LET bs == BodyParams(h)
    IN IF Len(bs) = 0 THEN NoBody ELSE BodyParam(bs[Len(bs)].name, bs[Len(bs)].type)

\* The models the loop over the signature registers: one per Body[...] parameter.
BodyModels(h) == {BodyParams(h)[i].type : i \in DOMAIN BodyParams(h)}

\* The model registered for a return annotation.
ReturnModels(ret) ==
    IF ret = NoType THEN {}
    ELSE IF get_origin(ret)
         THEN IF Len(get_args(ret)) > 0 /\ has_annotations(get_args(ret)[1])
              THEN {get_args(ret)[1]} ELSE {}
         ELSE IF has_annotations(ret) THEN {ret} ELSE {}

\* RegisterModels that assigns the model set instead of adding to it
RegisterModels_assigned(ms, h) == BodyModels(h) \cup ReturnModels(h.ret)

\* self.registered_models after the decorator has looked at handler h
RegisterModels(ms, h) == ms \cup BodyModels(h) \cup ReturnModels(h.ret)

\* starlette.routing.Route(path, endpoint, methods=[...]): methods are
\* upper-cased and a route that answers GET also answers HEAD.
Route(path, endpoint, methods) ==
    LET up == {upper(m) : m \in methods}
    IN [path |-> path, endpoint |-> endpoint,
        methods |-> IF "GET" \in up THEN up \cup {"HEAD"} ELSE up]

RouteInfo(d, h) ==
    [path |-> d.path,
     method |-> lower(d.method),
     tags |-> d.tags,
     summary |-> IF d.summary # "" THEN d.summary ELSE h.name,
     description |-> IF d.description # "" THEN d.description ELSE h.doc,
     body_param |-> body_param_of(h),
     return_type |-> h.ret,
     handler |-> h.name]

\* @router.route(path, method, tags, summary, description) applied to func
route(d) ==
    /\ Startup
    /\ Len(route_info) < MaxRoutes
    /\ LET h == Handler(d.func)
       IN IF ~h.resolvable
          THEN \* get_type_hints raises NameError before anything is stored
               /\ out' = Raised("route", Arg(d, d.func, JNull), "NameError")
               /\ UNCHANGED <<route_info, routes, registered_models>>
          ELSE /\ registered_models' = RegisterModels(registered_models, h)
               /\ route_info' = Append(route_info, RouteInfo(d, h))
               /\ routes' = Append(routes, Route(prefix \o d.path, d.func, {d.method}))
               /\ out' = Returned("route", Arg(d, d.func, JNull))
    \* once taken from the registry, the middleware's list and set are the router's
    /\ routes_info' = IF linked THEN route_info' ELSE routes_info
    /\ models' = IF linked THEN registered_models' ELSE models
    /\ UNCHANGED <<app_routes, registry, introspected, linked, wrap, prefix,
                   reqs, forwarded, shared>>

include_router ==
    /\ Startup
    /\ Len(app_routes) + Len(routes) <= MaxRoutes
    /\ app_routes' = app_routes \o routes
    /\ out' = Returned("include_router", NoArg)
    /\ UNCHANGED <<route_info, routes, registered_models, registry, routes_info,
                   models, introspected, linked, wrap, prefix,
                   reqs, forwarded, shared>>

\* func(**kwargs): every parameter of the handler is required
CallBinds(h, kwargs) == {h.params[i].name : i \in DOMAIN h.params} = DOMAIN kwargs

\* endpoint_response with the handler handed the parsed JSON itself instead
\* of the object decoded against the body type
endpoint_response_undecoded(func, raw) ==
    LET h == Handler(func)
        bp == body_param_of(h)
        arg == Arg(NoDecl, func, raw)
        dec == msgspec_json_decode(raw, bp.type)
        kwargs == IF bp = NoBody THEN EmptyFn ELSE (bp.name :> raw)
        result == IF h.echo THEN kwargs[bp.name] ELSE h.result
    IN IF bp # NoBody /\ dec.exc = "ValidationError"
       THEN Outcome("endpoint", arg, "", 422,
                    JDict("detail" :> JStr("ValidationError")), 0)
       ELSE IF bp # NoBody /\ dec.exc # ""
       THEN Raised("endpoint", arg, dec.exc)
       ELSE IF ~CallBinds(h, kwargs)
       THEN Raised("endpoint", arg, "TypeError")
       ELSE Outcome("endpoint", arg, "", 200, to_builtins(result), 1)

\* The endpoint closure route() builds around func, called with a request
\* whose body is raw.  The handler gets Body(body_data); one that echoes
\* returns body.value, the decoded object.
endpoint_response(func, raw) ==
    LET h == Handler(func)
        bp == body_param_of(h)
        arg == Arg(NoDecl, func, raw)
        dec == msgspec_json_decode(raw, bp.type)
        kwargs == IF bp = NoBody THEN EmptyFn ELSE (bp.name :> dec.value)
        result == IF h.echo THEN kwargs[bp.name] ELSE h.result
    IN IF bp # NoBody /\ dec.exc = "ValidationError"
       THEN Outcome("endpoint", arg, "", 422,
                    JDict("detail" :> JStr("ValidationError")), 0)
       ELSE IF bp # NoBody /\ dec.exc # ""
       THEN Raised("endpoint", arg, dec.exc)
       ELSE IF ~CallBinds(h, kwargs)
       THEN Raised("endpoint", arg, "TypeError")
       ELSE Outcome("endpoint", arg, "", 200, to_builtins(result), 1)

\* A request dispatched to the i-th route of the application
endpoint(i, raw) ==
    /\ i \in DOMAIN app_routes
    /\ app_routes[i].endpoint \notin PlainHandlers
    /\ body_param_of(Handler(app_routes[i].endpoint)) = NoBody => raw = Malformed
    /\ out' = endpoint_response(app_routes[i].endpoint, raw)
    /\ UNCHANGED <<route_info, routes, registered_models, app_routes, registry,
                   routes_info, models, introspected, linked, wrap, prefix,
                   reqs, forwarded, shared>>

\* app.add_route(path, func): a plain Starlette route, not made by the router
add_route(f) ==
    /\ Startup
    /\ f \in PlainHandlers
    /\ Len(app_routes) < MaxRoutes
    /\ app_routes' = Append(app_routes, Route(PlainPath(f), f, {"GET"}))
    /\ out' = Returned("add_route", Arg(NoDecl, f, JNull))
    /\ UNCHANGED <<route_info, routes, registered_models, registry, routes_info,
                   models, introspected, linked, wrap, prefix,
                   reqs, forwarded, shared>>

-----------------------------------------------------------------------------
(* starlette_msgspec/middleware.py                                          *)

\* register_routes_for_app(app, router.route_info, router.registered_models)
\* for the application the middleware wraps: the registry holds the router's
\* own list and set, not copies.
register_routes_for_app ==
    /\ Startup
    /\ ~registry
    /\ registry' = TRUE
    /\ out' = Returned("register_routes_for_app", NoArg)
    /\ UNCHANGED <<route_info, routes, registered_models, app_routes, routes_info,
                   models, introspected, linked, wrap, prefix,
                   reqs, forwarded, shared>>

\* The objects reached from self.app by following .app, outermost first;
\* each has a routes attribute or not, and an app attribute or not.
Layer(r, a) == [has_routes |-> r, has_app |-> a]
Layers(w) ==
    CASE w = "direct" -> << Layer(TRUE, FALSE) >>                 \* OpenAPIMiddleware(app)
      [] w = "stack"  -> << Layer(FALSE, TRUE), Layer(TRUE, FALSE) >>  \* app.add_middleware(...)
      [] w = "opaque" -> << Layer(FALSE, FALSE) >>                \* a bare ASGI callable

LayerRoutes(w, i) == IF Layers(w)[i].has_routes THEN app_routes ELSE << >>

RECURSIVE FindInner(_, _)
FindInner(w, current) ==
    IF Layers(w)[current].has_app
    THEN IF Layers(w)[current + 1].has_routes /\ LayerRoutes(w, current + 1) # << >>
         THEN current + 1
         ELSE FindInner(w, current + 1)
    ELSE 1

\* The index of the layer _find_app_with_routes returns
_find_app_with_routes(w) ==
    IF Layers(w)[1].has_routes /\ LayerRoutes(w, 1) # << >> THEN 1 ELSE FindInner(w, 1)

\* The middleware's own fields, as one record
Mw(ri, ms, intro, lk, exc) ==
    [routes_info |-> ri, models |-> ms, introspected |-> intro, linked |-> lk, exc |-> exc]

\* The order in which a route's methods are visited
MethodSeq(ms) ==
    SelectSeq(<<"GET", "POST", "HEAD">>, LAMBDA m : m \in ms)

\* _extract_route_info(route) on middleware fields st.  The endpoint carries
\* the handler's name, docstring, signature and annotations (functools.wraps)
\* and no _tags, _summary or _description attribute.
_extract_route_info(st, rt) ==
    LET h == Handler(rt.endpoint)
        ms == MethodSeq(rt.methods)
        info(m) == [path |-> rt.path,
                    method |-> lower(m),
                    tags |-> << >>,
                    summary |-> h.name,
                    description |-> h.doc,
                    body_param |-> body_param_of(h),
                    return_type |-> h.ret,
                    handler |-> h.name]
    IN IF ~h.resolvable
       THEN Mw(st.routes_info, st.models, st.introspected, st.linked, "NameError")
       ELSE Mw(st.routes_info \o [i \in DOMAIN ms |-> info(ms[i])],
               st.models \cup BodyModels(h) \cup ReturnModels(h.ret),
               st.introspected, st.linked, "")

\* for route in target_app.routes: self._extract_route_info(route)
RECURSIVE ExtractAll(_, _, _)
ExtractAll(st, rs, i) ==
    IF i > Len(rs) \/ st.exc # "" THEN st
    ELSE Bind(_extract_route_info(st, rs[i]), LAMBDA nx : ExtractAll(nx, rs, i + 1))

\* _introspect_app without the hasattr(target_app, 'routes') test
_introspect_app_unguarded(st) ==
    IF st.introspected THEN st
    ELSE IF registry THEN Mw(route_info, registered_models, TRUE, TRUE, "")
    ELSE LET target == _find_app_with_routes(wrap)
         IN IF ~Layers(wrap)[target].has_routes
            THEN Mw(st.routes_info, st.models, st.introspected, st.linked, "AttributeError")
            ELSE Bind(ExtractAll(st, LayerRoutes(wrap, target), 1), LAMBDA done :
                     IF done.exc # "" THEN done
                     ELSE Mw(done.routes_info, done.models, TRUE, done.linked, ""))

\* _introspect_app() on middleware fields st
_introspect_app(st) ==
    IF st.introspected THEN st
    ELSE IF registry THEN Mw(route_info, registered_models, TRUE, TRUE, "")
    ELSE LET target == _find_app_with_routes(wrap)
         IN IF ~Layers(wrap)[target].has_routes THEN st
            ELSE Bind(ExtractAll(st, LayerRoutes(wrap, target), 1), LAMBDA done :
                     IF done.exc # "" THEN done
                     ELSE Mw(done.routes_info, done.models, TRUE, done.linked, ""))


\* str.startswith("#/$defs/") and the name left by replace("#/$defs/", ""),
\* over the reference strings the schema generator emits
StartsWithDefs(str) == \E n \in StructNames : str = DefsPrefix \o n
RefName(str) == CHOOSE n \in StructNames : str = DefsPrefix \o n

\* _convert_refs_to_components(schema_obj, components_schemas): the result r
\* and the components mapping c as the call leaves it.  A dict's entries are
\* visited in an arbitrary fixed order; the mapping can depend on the order
\* only through "$defs" blocks in two sibling entries, and the generator
\* emits "$defs" at the top of a fragment only.
RECURSIVE _convert_refs_to_components(_, _)
RECURSIVE ConvertEntries(_, _, _, _)
RECURSIVE ConvertList(_, _, _, _)

ConvertEntries(obj, keys, comps, acc) ==
    IF keys = {} THEN [r |-> JDict(acc), c |-> comps]
    ELSE Bind(CHOOSE k \in keys : TRUE, LAMBDA key :
         Bind(obj.d[key], LAMBDA value :
            IF key = "$ref" /\ value.t = "str" /\ StartsWithDefs(value.s)
            THEN ConvertEntries(obj, keys \ {key}, comps,
                     (key :> JStr(ComponentsPrefix \o RefName(value.s))) @@ acc)
            ELSE IF value.t = "dict"
            THEN Bind(_convert_refs_to_components(value, comps), LAMBDA sub :
                     ConvertEntries(obj, keys \ {key}, sub.c, (key :> sub.r) @@ acc))
            ELSE IF value.t = "list"
            THEN Bind(ConvertList(value.l, 1, comps, << >>), LAMBDA sub :
                     ConvertEntries(obj, keys \ {key}, sub.c, (key :> sub.r) @@ acc))
            ELSE ConvertEntries(obj, keys \ {key}, comps, (key :> value) @@ acc)))

ConvertList(items, i, comps, acc) ==
    IF i > Len(items) THEN [r |-> JList(acc), c |-> comps]
    ELSE IF items[i].t = "dict"
    THEN Bind(_convert_refs_to_components(items[i], comps), LAMBDA sub :
             ConvertList(items, i + 1, sub.c, Append(acc, sub.r)))
    ELSE ConvertList(items, i + 1, comps, Append(acc, items[i]))

\* if "$defs" in schema_obj: the entries whose name is new are stored as they
\* are, "$defs" is deleted and a top-level "$ref" into "$defs" is rewritten
\* HoistDefs in which the entry of the fragment replaces the one present
HoistDefs_overwriting(schema_obj, comps) ==
    LET defs == schema_obj.d["$defs"]
    IN JDict([n \in Keys(comps) \cup Keys(defs) |->
                 IF n \in Keys(defs) THEN defs.d[n] ELSE comps.d[n]])

\* HoistDefs that leaves the shared mapping as it was
HoistDefs_skipped(schema_obj, comps) == comps

\* for def_name, def_schema in schema_obj["$defs"].items():
\*     if def_name not in components_schemas: components_schemas[def_name] = def_schema
HoistDefs(schema_obj, comps) ==
    LET defs == schema_obj.d["$defs"]
    IN JDict([n \in Keys(comps) \cup Keys(defs) |->
                 IF n \in Keys(comps) THEN comps.d[n] ELSE defs.d[n]])

DropDefs(schema_obj) ==
    LET o == Del(schema_obj, "$defs")
    IN IF Has(o, "$ref") /\ StartsWithDefs(o.d["$ref"].s)
       THEN Put(o, "$ref", JStr(ComponentsPrefix \o RefName(o.d["$ref"].s)))
       ELSE o

_convert_refs_to_components(schema_obj, comps) ==
    IF schema_obj.t = "dict"
    THEN IF Has(schema_obj, "$defs")
         THEN Bind(HoistDefs(schema_obj, comps), LAMBDA hoisted :
              Bind(DropDefs(schema_obj), LAMBDA o :
                 ConvertEntries(o, Keys(o), hoisted, EmptyFn)))
         ELSE ConvertEntries(schema_obj, Keys(schema_obj), comps, EmptyFn)
    ELSE IF schema_obj.t = "list"
    THEN ConvertList(schema_obj.l, 1, comps, << >>)
    ELSE [r |-> schema_obj, c |-> comps]


ValidationErrorResponse ==
    JDict(("description" :> JStr("Validation Error"))
          @@ ("content" :> JDict("application/json" :> JDict("schema" :>
                JDict(("type" :> JStr("object"))
                      @@ ("properties" :> JDict("detail" :>
                            JDict("type" :> JStr("string")))))))))

Content(schema) == JDict("application/json" :> JDict("schema" :> schema))

\* if route_info["body_param"]: ... operation["requestBody"] = {...}
\* The operation with its request body, and the components mapping after
\* the conversion.
RequestBody(ri, operation, comps) ==
    IF ri.body_param # NoBody
    THEN Bind(_convert_refs_to_components(msgspec_json_schema(ri.body_param.type), comps),
              LAMBDA body :
                 [r |-> Put(operation, "requestBody",
                            JDict(("content" :> Content(body.r))
                                  @@ ("required" :> JBool(TRUE)))),
                  c |-> body.c])
    ELSE [r |-> operation, c |-> comps]

\* ResponseContent that embeds a schema only for a return type that is a
\* structural type itself
ResponseContent_struct_only(ri, operation, comps) ==
    IF ri.return_type # NoType /\ IsStruct(ri.return_type)
    THEN Bind(_convert_refs_to_components(msgspec_json_schema(ri.return_type), comps),
              LAMBDA resp :
                 [r |-> Put(operation, "responses",
                            Put(operation.d["responses"], "200",
                                Put(operation.d["responses"].d["200"], "content",
                                    Content(resp.r)))),
                  c |-> resp.c])
    ELSE [r |-> operation, c |-> comps]

\* if route_info["return_type"]: ... operation["responses"]["200"]["content"] = {...}
ResponseContent(ri, operation, comps) ==
    IF ri.return_type # NoType
    THEN Bind(_convert_refs_to_components(msgspec_json_schema(ri.return_type), comps),
              LAMBDA resp :
                 [r |-> Put(operation, "responses",
                            Put(operation.d["responses"], "200",
                                Put(operation.d["responses"].d["200"], "content",
                                    Content(resp.r)))),
                  c |-> resp.c])
    ELSE [r |-> operation, c |-> comps]

\* The operation built for one entry of routes_info
Operation(ri, comps) ==
    LET base == JDict(("summary" :> JStr(ri.summary))
                      @@ ("description" :> JStr(ri.description))
                      @@ ("operationId" :> JStr(ri.handler))
                      @@ ("tags" :> JList([i \in DOMAIN ri.tags |-> JStr(ri.tags[i])]))
                      @@ ("responses" :> JDict(("200" :> JDict("description" :>
                                                          JStr("Successful Response")))
                                               @@ ("422" :> ValidationErrorResponse))))
    IN Bind(RequestBody(ri, base, comps), LAMBDA b : ResponseContent(ri, b.r, b.c))

\* if path not in schema["paths"]: schema["paths"][path] = {}
\* ... schema["paths"][path][method] = operation
SetOperation(paths, path, method, operation) ==
    Put(paths, path,
        Put(IF Has(paths, path) THEN paths.d[path] ELSE EmptyDict, method, operation))

\* for route_info in self.routes_info: ...
RECURSIVE BuildPaths(_, _, _, _)
BuildPaths(ris, i, paths, comps) ==
    IF i > Len(ris) THEN [r |-> paths, c |-> comps]
    ELSE Bind(Operation(ris[i], comps), LAMBDA op :
         Bind(SetOperation(paths, ris[i].path, ris[i].method, op.r), LAMBDA nx :
            BuildPaths(ris, i + 1, nx, op.c)))

\* generate_openapi_schema after the lazy introspection left the fields st
assemble(st) ==
    Bind(schema_components(st.models, ComponentsPrefix), LAMBDA components :
    Bind(BuildPaths(st.routes_info, 1, EmptyDict, components), LAMBDA built :
        JDict(("openapi" :> JStr("3.0.2"))
              @@ ("info" :> JDict(("title" :> JStr("API"))
                                  @@ ("version" :> JStr("0.1.0"))
                                  @@ ("description" :> JStr("API Documentation"))))
              @@ ("paths" :> built.r)
              @@ ("components" :> JDict("schemas" :> built.c)))))

\* GET /openapi.json: generate_openapi_schema() and its JSON response
\* A request whose introspection fails leaves what it had appended behind and
\* the next one appends again; the guard caps that growth.
openapi ==
    /\ introspected \/ Len(routes_info) < 2 * MaxRoutes
    /\ \E st \in {_introspect_app(Mw(routes_info, models, introspected, linked, ""))} :
          /\ routes_info' = st.routes_info
          /\ models' = st.models
          /\ introspected' = st.introspected
          /\ linked' = st.linked
          /\ out' = IF st.exc # "" THEN Raised("openapi", NoArg, st.exc)
                    ELSE Outcome("openapi", NoArg, "", 200, assemble(st), 0)
    /\ UNCHANGED <<route_info, routes, registered_models, app_routes, registry,
                   wrap, prefix,
                   reqs, forwarded, shared>>

\* An ASGI scope, and the call the server makes with it
Scope(type, path) == JDict([type |-> JStr(type), path |-> JStr(path)])
AsgiCall(scope, receive, send) ==
    JDict([scope |-> scope, receive |-> JStr(receive), send |-> JStr(send)])

openapi_path == "/openapi.json"
docs_path == "/docs"

\* OpenAPIMiddleware.__call__(scope, receive, send)
call(scope, receive, send) ==
    LET arg == Arg(NoDecl, "", AsgiCall(scope, receive, send))
        own == scope.d["type"].s = "http"
               /\ scope.d["path"].s \in {openapi_path, docs_path}
    IN /\ scope.d["path"].s = openapi_path =>
             (introspected \/ Len(routes_info) < 2 * MaxRoutes)
       /\ IF ~own
          THEN \* await self.app(scope, receive, send)
               /\ forwarded' = << <<scope, receive, send>> >>
               /\ out' = Returned("call", arg)
               /\ UNCHANGED <<routes_info, models, introspected, linked>>
          ELSE IF scope.d["path"].s = docs_path
          THEN \* HTMLResponse(self.generate_swagger_html())
               /\ forwarded' = << >>
               /\ out' = Outcome("call", arg, "", 200, JStr("Swagger UI"), 0)
               /\ UNCHANGED <<routes_info, models, introspected, linked>>
          ELSE \* JSONResponse(self.generate_openapi_schema())
               \E st \in {_introspect_app(Mw(routes_info, models, introspected,
                                             linked, ""))} :
                  /\ routes_info' = st.routes_info
                  /\ models' = st.models
                  /\ introspected' = st.introspected
                  /\ linked' = st.linked
                  /\ forwarded' = << >>
                  /\ out' = IF st.exc # "" THEN Raised("call", arg, st.exc)
                            ELSE Outcome("call", arg, "", 200, assemble(st), 0)
       /\ UNCHANGED <<route_info, routes, registered_models, app_routes, registry,
                      wrap, prefix, reqs, shared>>

\* schemas, components = msgspec.json.schema_components(self.models, ...):
\* the shared mapping a document starts from
start_components(ms) ==
    /\ shared' = schema_components(ms, ComponentsPrefix)
    /\ out' = Returned("components", NoArg)
    /\ UNCHANGED <<route_info, routes, registered_models, app_routes, registry,
                   routes_info, models, introspected, linked, wrap, prefix,
                   reqs, forwarded>>

\* self._convert_refs_to_components(fragment, schema["components"]["schemas"])
\* for the schema fragment of one body or return type
merge(fragment) ==
    /\ \E res \in {_convert_refs_to_components(fragment, shared)} :
          /\ shared' = res.c
          /\ out' = Outcome("merge", Arg(NoDecl, "", fragment), "", 0, res.r, 0)
    /\ UNCHANGED <<route_info, routes, registered_models, app_routes, registry,
                   routes_info, models, introspected, linked, wrap, prefix,
                   reqs, forwarded>>

-----------------------------------------------------------------------------
(* generate_openapi_schema() statement by statement, for documentation      *)
(* requests that run on threads of their own: each action is one statement  *)
(* of _introspect_app, and the assembly that follows it.                    *)

\* A documentation request: where it stands (pc), the route and the method
\* its loops have reached (i, m), and what it ended with (exc, doc)
Req(pc, i, m, exc, doc) == [pc |-> pc, i |-> i, m |-> m, exc |-> exc, doc |-> doc]
Idle == Req("idle", 0, 0, "", JNull)

\* Request r moves to position pc
Goto(r, pc) == reqs' = [reqs EXCEPT ![r].pc = pc]

\* What _extract_route_info(route) adds for one route, taken alone
Extracted(rt) == _extract_route_info(Mw(<< >>, {}, FALSE, FALSE, ""), rt)

\* __call__: path == self.openapi_path, generate_openapi_schema() is entered
request(r) ==
    /\ reqs[r].pc = "idle"
    /\ Goto(r, "check")
    /\ UNCHANGED <<route_info, routes, registered_models, app_routes, registry,
                   routes_info, models, introspected, linked, wrap, prefix, out,
                   forwarded, shared>>

\* if self._introspected: return / if app_id_str in _route_registry:
check(r) ==
    /\ reqs[r].pc = "check"
    /\ Goto(r, IF introspected THEN "generate"
               ELSE IF registry THEN "link_routes" ELSE "find")
    /\ UNCHANGED <<route_info, routes, registered_models, app_routes, registry,
                   routes_info, models, introspected, linked, wrap, prefix, out,
                   forwarded, shared>>

\* self.routes_info = _route_registry[app_id_str]
link_routes(r) ==
    /\ reqs[r].pc = "link_routes"
    /\ routes_info' = route_info
    /\ Goto(r, "link_models")
    /\ UNCHANGED <<route_info, routes, registered_models, app_routes, registry,
                   models, introspected, linked, wrap, prefix, out, forwarded, shared>>

\* self.models = _model_registry.get(app_id_str, set())
link_models(r) ==
    /\ reqs[r].pc = "link_models"
    /\ models' = registered_models
    /\ linked' = TRUE
    /\ Goto(r, "flag")
    /\ UNCHANGED <<route_info, routes, registered_models, app_routes, registry,
                   routes_info, introspected, wrap, prefix, out, forwarded, shared>>

\* target_app = self._find_app_with_routes()
\* if not target_app or not hasattr(target_app, 'routes'): return
find(r) ==
    /\ reqs[r].pc = "find"
    /\ reqs' = [reqs EXCEPT ![r].pc =
                   IF Layers(wrap)[_find_app_with_routes(wrap)].has_routes
                   THEN "extract" ELSE "generate",
                 ![r].i = 1]
    /\ UNCHANGED <<route_info, routes, registered_models, app_routes, registry,
                   routes_info, models, introspected, linked, wrap, prefix, out,
                   forwarded, shared>>

\* for route in target_app.routes: the head of _extract_route_info(route),
\* up to the loop over the route's methods
extract(r) ==
    /\ reqs[r].pc = "extract"
    /\ LET rs == LayerRoutes(wrap, _find_app_with_routes(wrap))
           i == reqs[r].i
       IN IF i > Len(rs)
          THEN Goto(r, "flag") /\ UNCHANGED models
          ELSE IF Extracted(rs[i]).exc # ""
          THEN /\ reqs' = [reqs EXCEPT ![r].pc = "done",
                                        ![r].exc = Extracted(rs[i]).exc]
               /\ UNCHANGED models
          ELSE /\ models' = models \cup Extracted(rs[i]).models
               /\ reqs' = [reqs EXCEPT ![r].pc = "append", ![r].m = 1]
    /\ UNCHANGED <<route_info, routes, registered_models, app_routes, registry,
                   routes_info, introspected, linked, wrap, prefix, out,
                   forwarded, shared>>

\* for method in route.methods: ... self.routes_info.append(route_info)
append(r) ==
    /\ reqs[r].pc = "append"
    /\ LET rs == LayerRoutes(wrap, _find_app_with_routes(wrap))
           infos == Extracted(rs[reqs[r].i]).routes_info
           m == reqs[r].m
       IN /\ routes_info' = Append(routes_info, infos[m])
          /\ reqs' = IF m < Len(infos)
                     THEN [reqs EXCEPT ![r].m = m + 1]
                     ELSE [reqs EXCEPT ![r].pc = "extract", ![r].i = reqs[r].i + 1]
    /\ UNCHANGED <<route_info, routes, registered_models, app_routes, registry,
                   models, introspected, linked, wrap, prefix, out, forwarded, shared>>

\* self._introspected = True
flag(r) ==
    /\ reqs[r].pc = "flag"
    /\ introspected' = TRUE
    /\ Goto(r, "generate")
    /\ UNCHANGED <<route_info, routes, registered_models, app_routes, registry,
                   routes_info, models, linked, wrap, prefix, out, forwarded, shared>>

\* The rest of generate_openapi_schema(), on the fields as they are now, and
\* the JSONResponse made of it
generate(r) ==
    /\ reqs[r].pc = "generate"
    /\ reqs' = [reqs EXCEPT ![r].pc = "done",
                             ![r].doc = assemble(Mw(routes_info, models,
                                                    introspected, linked, ""))]
    /\ UNCHANGED <<route_info, routes, registered_models, app_routes, registry,
                   routes_info, models, introspected, linked, wrap, prefix, out,
                   forwarded, shared>>

-----------------------------------------------------------------------------
(* Requests and applications considered *)

FullItem == JDict([name |-> JStr("New Item"), price |-> JNum(15),
                   description |-> JStr("A new item")])
Payloads ==
    { Malformed,
      FullItem,
      JDict([name |-> JStr("New Item"), price |-> JNum(15)]),
      JDict([name |-> JStr("Invalid Item")]),
      JDict([name |-> JStr("New Item"), price |-> JStr("cheap")]),
      Put(FullItem, "color", JStr("red")),
      JDict([id |-> JNum(1), item |-> FullItem]),
      JDict([id |-> JNum(7), name |-> JStr("Al")]) }

\* How the middleware wraps the application, and the router's prefix
Configs == { <<"direct", "">>, <<"stack", "">>, <<"stack", "/api">>, <<"opaque", "">> }

Init ==
    /\ route_info = << >>
    /\ routes = << >>
    /\ registered_models = {}
    /\ app_routes = << >>
    /\ registry = FALSE
    /\ routes_info = << >>
    /\ models = {}
    /\ introspected = FALSE
    /\ linked = FALSE
    /\ \E c \in Configs : wrap = c[1] /\ prefix = c[2]
    /\ out = Returned("init", NoArg)
    /\ reqs = [r \in Requests |-> Idle]
    /\ forwarded = << >>
    /\ shared = EmptyDict

\* The application is built and then asked for its documentation
Next ==
    \/ \E d \in Decls : route(d)
    \/ include_router
    \/ \E f \in PlainHandlers : add_route(f)
    \/ register_routes_for_app
    \/ openapi

Spec == Init /\ [][Next]_vars

\* The application is built and then sent requests for its routes
NextServe ==
    \/ \E d \in Decls : route(d)
    \/ include_router
    \/ \E i \in 1..MaxRoutes, raw \in Payloads : endpoint(i, raw)

SpecServe == Init /\ [][NextServe]_vars

-----------------------------------------------------------------------------
(* Request handling                                                        *)

\* The last action was a request to a route whose handler has a
\* body-designated parameter
BodyRequest ==
    /\ out.op = "endpoint"
    /\ Len(BodyParams(Handler(out.arg.func))) > 0

\* The type the body of the last request is decoded against
BodyType == BodyParams(Handler(out.arg.func))[Len(BodyParams(Handler(out.arg.func)))].type

\* The payload of the last request is JSON that matches the body type
ValidPayload == out.arg.payload.t # "malformed" /\ Valid(out.arg.payload, BodyType)

\* C1: for every route with a body-designated parameter, a request whose
\* payload fails to decode against the body type (missing required field,
\* wrongly typed field, or bytes that are not JSON) is answered with status
\* 422 and a JSON body holding a detail string, and nothing propagates out
\* of the endpoint.
C1_DecodeFailureIs422 ==
    (BodyRequest /\ ~ValidPayload) =>
        /\ out.exc = ""
        /\ out.status = 422
        /\ out.body.t = "dict"
        /\ Has(out.body, "detail")
        /\ out.body.d["detail"].t = "str"

\* The request JSON j seen as a value of type ty: the declared fields only,
\* an absent optional field standing at its default
RECURSIVE Completed(_, _)
Completed(j, ty) ==
    IF IsStruct(ty)
    THEN JDict([fn \in FieldNames(ty[1]) |->
                  IF Has(j, fn)
                  THEN Completed(j.d[fn], FieldOf(ty[1], fn).type)
                  ELSE FieldOf(ty[1], fn).default])
    ELSE j

\* The request JSON j names exactly the fields its type declares, at every
\* level
RECURSIVE Exact(_, _)
Exact(j, ty) ==
    IsStruct(ty) =>
        /\ Keys(j) = FieldNames(ty[1])
        /\ \A fn \in FieldNames(ty[1]) : Exact(j.d[fn], FieldOf(ty[1], fn).type)

-----------------------------------------------------------------------------
(* The served document                                                     *)

\* The last action was a documentation request that was answered
DocServed == out.op = "openapi" /\ out.exc = ""

DocPaths == out.body.d["paths"]
DocSchemas == out.body.d["components"].d["schemas"]

\* The operation entries of the served document, as <<path, method>> pairs
DocOperations == {<<p, m>> \in Keys(DocPaths) \X {"get", "post", "head"} :
                     Has(DocPaths.d[p], m)}
DocOperation(pm) == DocPaths.d[pm[1]].d[pm[2]]

\* C3: in every assembled document, every structural type reachable from the
\* body type or the return type of a route of the document (directly, inside
\* a container, or as a field of another structural type) is a named entry
\* of components.schemas.
C3_ReachableTypesInComponents ==
    DocServed =>
        \A i \in DOMAIN routes_info :
            LET bt == IF routes_info[i].body_param = NoBody THEN NoType
                      ELSE routes_info[i].body_param.type
            IN Reach(bt) \cup Reach(routes_info[i].return_type) \subseteq Keys(DocSchemas)

\* A document was served for a route that returns a mapping of a structural
\* type the model set does not hold
C3_Witness ==
    /\ DocServed
    /\ \E i \in DOMAIN routes_info : routes_info[i].return_type = <<"Dict", "Order">>
    /\ <<"Order">> \notin models

\* A JSON value holds a $defs block or a #/$defs/ reference somewhere
RECURSIVE MentionsDefs(_)
MentionsDefs(j) ==
    CASE j.t = "dict" -> Has(j, "$defs") \/ \E k \in Keys(j) : MentionsDefs(j.d[k])
      [] j.t = "list" -> \E i \in DOMAIN j.l : MentionsDefs(j.l[i])
      [] j.t = "str"  -> StartsWithDefs(j.s)
      [] OTHER -> FALSE

\* The reference strings a JSON value holds
RECURSIVE RefsIn(_)
RefsIn(j) ==
    CASE j.t = "dict" ->
            (IF Has(j, "$ref") /\ j.d["$ref"].t = "str" THEN {j.d["$ref"].s} ELSE {})
            \cup UNION {RefsIn(j.d[k]) : k \in Keys(j)}
      [] j.t = "list" -> UNION {RefsIn(j.l[i]) : i \in DOMAIN j.l}
      [] OTHER -> {}

\* C4: no assembled document holds a $defs block or a #/$defs/<name>
\* reference anywhere, operations and components.schemas entries included;
\* every reference points to #/components/schemas/<name> and that name is an
\* entry of components.schemas.
C4_NoLocalDefinitions ==
    DocServed =>
        /\ ~MentionsDefs(out.body)
        /\ \A r \in RefsIn(out.body) :
              \E n \in Keys(DocSchemas) : r = ComponentsPrefix \o n

\* The i-th route registered through the router was included in the
\* application
Included(i) == \E k \in DOMAIN app_routes : app_routes[k] = routes[i]

\* The path the i-th registered route has in the document: the route's own
\* path when the document is built from the application's routes, the
\* registered path when it is built from the linked registry
DocPath(i) == IF linked THEN route_info[i].path ELSE routes[i].path

\* The i-th registered route has an operation entry under its path and its
\* lower-cased method
HasEntry(i) ==
    /\ Has(DocPaths, DocPath(i))
    /\ Has(DocPaths.d[DocPath(i)], route_info[i].method)

EntryOf(i) == DocPaths.d[DocPath(i)].d[route_info[i].method]

\* C5: every route registered through the router and included in the
\* application is in the assembled document under its path and lower-cased
\* method, and of two routes registered at the same path with different
\* methods both are there as distinct method keys, neither overwriting the
\* other (each key holds the operation of the route registered for it).
C5_EveryRouteHasItsEntry ==
    (DocServed /\ introspected) =>
        \A i \in DOMAIN route_info :
            Included(i) =>
                /\ HasEntry(i)
                /\ \A j \in DOMAIN route_info :
                      (/\ Included(j)
                       /\ route_info[j].path = route_info[i].path
                       /\ route_info[j].method # route_info[i].method)
                      => EntryOf(i).d["operationId"] = JStr(route_info[i].handler)

\* C6: for every route registered with route(path, method, tags, summary,
\* description), the operation entry for its (path, method) in the served
\* document carries the registered tags, the registered summary (handler
\* name when none was given), the registered description (docstring or
\* empty string when none was given) and the handler name as operationId.
C6_OperationCarriesRegistration ==
    (DocServed /\ introspected) =>
        \A i \in DOMAIN route_info :
            Included(i) =>
                /\ HasEntry(i)
                /\ EntryOf(i).d["tags"] =
                      JList([k \in DOMAIN route_info[i].tags |-> JStr(route_info[i].tags[k])])
                /\ EntryOf(i).d["summary"] = JStr(route_info[i].summary)
                /\ EntryOf(i).d["description"] = JStr(route_info[i].description)
                /\ EntryOf(i).d["operationId"] = JStr(route_info[i].handler)

\* Introspection has nowhere to look for routes: the registry is not linked
\* and the wrapped application exposes none
NothingLocated ==
    /\ ~registry
    /\ ~Layers(wrap)[_find_app_with_routes(wrap)].has_routes

\* C7: when no routes are registered, or when introspection cannot locate
\* any routes in the wrapped application, a documentation request succeeds
\* with a document whose paths mapping is empty.
C7_EmptyDocumentNoFailure ==
    (/\ out.op = "openapi"
     /\ \/ route_info = << >> /\ app_routes = << >>
        \/ NothingLocated)
    => /\ out.exc = ""
       /\ out.status = 200
       /\ Keys(DocPaths) = {}

\* The documentation was requested from an application that has routes
\* behind a wrapper exposing neither routes nor an inner application
C7_Witness ==
    /\ out.op = "openapi"
    /\ NothingLocated
    /\ app_routes # << >>

\* C8: the registry is append-only and order-preserving: a registration
\* appends exactly one record at the end, the records before it keep their
\* positions and fields, the model set after it is a superset of the one
\* before, and no other operation changes the registry or the model set.
C8_RegistryAppendOnly ==
    [][IF out'.op = "route" /\ out'.exc = ""
       THEN /\ Len(route_info') = Len(route_info) + 1
            /\ SubSeq(route_info', 1, Len(route_info)) = route_info
            /\ route_info'[Len(route_info')].path = out'.arg.decl.path
            /\ route_info'[Len(route_info')].handler = out'.arg.func
            /\ registered_models \subseteq registered_models'
       ELSE route_info' = route_info /\ registered_models' = registered_models]_vars

\* A second registration was made on a router whose model set was not
\* empty, and it brought another model
C8_Witness ==
    /\ out.op = "route" /\ out.exc = ""
    /\ Len(route_info) >= 2
    /\ Cardinality(registered_models) >= 2

\* C9: every operation entry of the assembled document has responses "200"
\* and "422"; it has a requestBody with an embedded schema exactly when its
\* route's handler has a body-designated parameter, and its "200" response
\* has an embedded content schema exactly when the handler declares a
\* return type.
C9_OperationShape ==
    DocServed =>
        \A pm \in DocOperations :
            LET operation == DocOperation(pm)
                h == Handler(operation.d["operationId"].s)
                ok == operation.d["responses"].d["200"]
            IN /\ Has(operation, "responses")
               /\ Has(operation.d["responses"], "200")
               /\ Has(operation.d["responses"], "422")
               /\ Has(operation, "requestBody") <=> Len(BodyParams(h)) > 0
               /\ Has(operation, "requestBody") =>
                     Has(operation.d["requestBody"].d["content"].d["application/json"],
                         "schema")
               /\ Has(ok, "content") <=> h.ret # NoType
               /\ Has(ok, "content") =>
                     Has(ok.d["content"].d["application/json"], "schema")

\* The served document has an operation with a request body, and one whose
\* handler returns a list
C9_Witness ==
    /\ DocServed
    /\ \E pm \in DocOperations : Has(DocOperation(pm), "requestBody")
    /\ \E pm \in DocOperations :
          Handler(DocOperation(pm).d["operationId"].s).ret = <<"List", "Item">>

\* The handler's annotations are absent, unresolvable or ambiguous
AnnotationTrouble(h) ==
    \/ ~h.resolvable
    \/ Len(BodyParams(h)) > 1
    \/ h.ret = NoType /\ \A k \in DOMAIN h.params : h.params[k].type = NoType

\* C10: annotation errors never block registration and are never fatal:
\* registering a handler whose annotations are absent, unresolvable or
\* ambiguous succeeds with the handler treated as having no body parameter,
\* and a documentation request never raises.
C10_AnnotationErrorsNotFatal ==
    /\ out.op = "route" => out.exc = ""
    /\ (out.op = "route" /\ AnnotationTrouble(Handler(out.arg.func))) =>
          /\ route_info # << >>
          /\ route_info[Len(route_info)].handler = out.arg.func
          /\ route_info[Len(route_info)].body_param = NoBody
    /\ out.op = "openapi" => out.exc = ""

-----------------------------------------------------------------------------
(* Documentation requests side by side                                     *)

\* The application is built and then asked for its documentation by
\* requests whose statements interleave
NextRace ==
    \/ \E d \in Decls : route(d)
    \/ include_router
    \/ \E f \in PlainHandlers : add_route(f)
    \/ register_routes_for_app
    \/ \E r \in Requests :
          \/ request(r)
          \/ check(r)
          \/ link_routes(r)
          \/ link_models(r)
          \/ find(r)
          \/ extract(r)
          \/ append(r)
          \/ flag(r)
          \/ generate(r)

SpecRace == Init /\ [][NextRace]_vars

\* What one documentation request, alone on a new middleware over the same
\* application, ends with
SingleRequest == _introspect_app(Mw(<< >>, {}, FALSE, FALSE, ""))

\* C11: lazy introspection tolerates repeated and concurrent invocation:
\* every documentation request, whether it runs after another or interleaved
\* with it at any point inside introspection, ends as a single request on the
\* same application ends, with the same complete document.
C11_SameDocumentForEveryRequest ==
    \A r \in Requests :
        reqs[r].pc = "done" =>
            /\ reqs[r].exc = SingleRequest.exc
            /\ SingleRequest.exc = "" => reqs[r].doc = assemble(SingleRequest)

-----------------------------------------------------------------------------
(* The schema merger                                                       *)

\* The fragment msgspec.json.schema gives for another class that is also
\* named Item, with fields of its own
OtherItemFragment ==
    JDict(("$ref" :> JStr(DefsPrefix \o "Item"))
          @@ ("$defs" :> JDict("Item" :>
                JDict(("title" :> JStr("Item"))
                      @@ ("type" :> JStr("object"))
                      @@ ("properties" :> JDict("sku" :> JDict("type" :> JStr("string"))))
                      @@ ("required" :> JList(<<JStr("sku")>>))))))

\* Model sets a document may start from
ModelSets == SUBSET {<<"Item">>, <<"Order">>, <<"User">>}

\* Per-type fragments handed to the merger
Fragments ==
    {msgspec_json_schema(ty) :
        ty \in {<<"Item">>, <<"List", "Item">>, <<"User">>, <<"Order">>,
                <<"Dict", "Order">>, <<"int">>}}
    \cup {OtherItemFragment}

\* A shared mapping is set up and fragments are merged into it in any order
NextMerge ==
    \/ \E ms \in ModelSets : start_components(ms)
    \/ \E fragment \in Fragments : merge(fragment)

SpecMerge == Init /\ [][NextMerge]_vars

\* The local-definition block of the fragment last merged
MergedDefs ==
    IF Has(out.arg.payload, "$defs") THEN out.arg.payload.d["$defs"] ELSE EmptyDict

\* C12: the schema merger is first-writer-wins: hoisting a $defs block adds
\* an entry only under a name the shared mapping does not have yet, and
\* every entry already there keeps its name and its schema fragment,
\* whatever the order of the fragments and even when the fragment defines a
\* different type under the same name.
C12_FirstWriterWins ==
    [][out'.op = "merge" =>
         LET defs == IF Has(out'.arg.payload, "$defs")
                     THEN out'.arg.payload.d["$defs"] ELSE EmptyDict
         IN /\ \A n \in Keys(shared) : Has(shared', n) /\ shared'.d[n] = shared.d[n]
            /\ Keys(shared') = Keys(shared) \cup Keys(defs)
            /\ \A n \in Keys(defs) \ Keys(shared) : shared'.d[n] = defs.d[n]]_vars

\* A fragment was merged whose $defs block defines, under a name the shared
\* mapping holds, a schema different from the one held
C12_Witness ==
    /\ out.op = "merge"
    /\ \E n \in Keys(MergedDefs) \cap Keys(shared) : shared.d[n] # MergedDefs.d[n]

-----------------------------------------------------------------------------
(* The middleware as an ASGI application                                   *)

\* The calls a server makes
Scopes ==
    {Scope("http", p) : p \in {openapi_path, docs_path, "/items/", "/docs/"}}
    \cup {Scope("websocket", openapi_path), Scope("websocket", "/ws"),
          Scope("lifespan", "")}
Receives == {"receive"}
Sends == {"send"}

\* The application is built and then called by the server
NextCall ==
    \/ \E d \in Decls : route(d)
    \/ include_router
    \/ \E f \in PlainHandlers : add_route(f)
    \/ register_routes_for_app
    \/ \E scope \in Scopes, receive \in Receives, send \in Sends :
          call(scope, receive, send)

SpecCall == Init /\ [][NextCall]_vars

\* The scope of the last call is HTTP with one of the two documentation
\* paths
OwnPath ==
    /\ out.arg.payload.d["scope"].d["type"] = JStr("http")
    /\ out.arg.payload.d["scope"].d["path"] \in {JStr(openapi_path), JStr(docs_path)}

\* C13: for every ASGI call the middleware does exactly one of two things:
\* it answers the call itself, only for an HTTP scope whose path is exactly
\* /openapi.json or /docs, without calling the wrapped application; or it
\* forwards the call to the wrapped application exactly once with scope,
\* receive and send unchanged.  Non-HTTP scopes are always forwarded, and a
\* forwarded call changes none of routes_info, models and _introspected.
C13_AnswerOrForward ==
    /\ [](out.op = "call" =>
            IF OwnPath
            THEN out.exc = "" /\ out.status = 200 /\ forwarded = << >>
            ELSE /\ out.exc = "" /\ out.status = 0
                 /\ forwarded = << << out.arg.payload.d["scope"],
                                     out.arg.payload.d["receive"].s,
                                     out.arg.payload.d["send"].s >> >>)
    /\ [][(out'.op = "call" /\ forwarded' # << >>) =>
            UNCHANGED <<routes_info, models, introspected>>]_vars

=============================================================================
